---- MODULE Spec2Model ----
(***************************************************************************)
(* Model of youtube_transcript_summarizer.py: one run of main() is a       *)
(* process walking through the lines of main; the two cache directories    *)
(* are the shared state.  A text is a sequence of one-character strings.   *)
(***************************************************************************)
EXTENDS Integers, Sequences, FiniteSets, TLC

VARIABLES run, transcripts, summaries, dirs, nruns, prev, firstWrite, name, result

vars == <<run, transcripts, summaries, dirs, nruns, prev, firstWrite, name, result>>

\* ------------------------------------------------------------------ bounds
MaxRuns == 2
MaxSnips == 2
MaxLen == 3

\* Processes (invocations of the program that may be alive at once).
Procs == {1, 2}

\* ------------------------------------------------------------------ texts
Forbidden == {"\\", "/", "*", "?", ":", "\"", "<", ">", "|"}
Whitespace == {" ", "\t", "\n"}
NUL == "0"

Max(a, b) == IF a >= b THEN a ELSE b

RECURSIVE lstrip(_)
lstrip(s) == IF s # <<>> /\ Head(s) \in Whitespace THEN lstrip(Tail(s)) ELSE s

RECURSIVE rstrip(_)
rstrip(s) ==
  IF s # <<>> /\ s[Len(s)] \in Whitespace THEN rstrip(SubSeq(s, 1, Len(s) - 1)) ELSE s

\* str.strip(): leading and trailing whitespace removed.
strip(s) == rstrip(lstrip(s))

\* re.sub(r'[\\/*?:"<>|]', "", s)
re_sub(s) == SelectSeq(s, LAMBDA c : c \notin Forbidden)

\* str.replace(" ", "_")
replace(s) == [i \in 1..Len(s) |-> IF s[i] = " " THEN "_" ELSE s[i]]

\* mutant: no strip()
sanitize_filename_nostrip(s) == replace(re_sub(s))

\* line 22
sanitize_filename(s) == replace(strip(re_sub(s)))

\* s occurs in t as a contiguous run.
Contains(t, s) ==
  \E i \in 0..(Len(t) - Len(s)) : SubSeq(t, i + 1, i + Len(s)) = s

IsPrefix(s, t) == Len(s) <= Len(t) /\ SubSeq(t, 1, Len(s)) = s

\* a write of data at byte offset off of a file holding content (a hole reads NUL)
WriteAt(content, off, data) ==
  [i \in 1..Max(Len(content), off + Len(data)) |->
     IF i > off /\ i <= off + Len(data) THEN data[i - off]
     ELSE IF i <= Len(content) THEN content[i] ELSE NUL]

\* ------------------------------------------------------------------ files
NoFile == [exists |-> FALSE, data |-> <<>>]
File(d) == [exists |-> TRUE, data |-> d]

\* history: the content a transcript file had when its first save ended, and
\* the video the run that saved it was about
NoWrite == [exists |-> FALSE, data |-> <<>>, by |-> "<none>"]
Written(d, v) == [exists |-> TRUE, data |-> d, by |-> v]

\* ------------------------------------------------------------------ constants
DEFAULT_OLLAMA_MODEL == "gemma3"
DEFAULT_PROMPT == <<"DEFAULT_PROMPT">>
TRANSCRIPTS_DIR == "transcripts"
SUMMARIES_DIR == "summaries"
UnknownTitle == <<"unknown_title">>

\* ------------------------------------------------------------------ inputs
NoArg == "<none>"
VideoIds == {"A", "B"}
Models == {DEFAULT_OLLAMA_MODEL, "llama3"}
PromptFiles == {"p.txt"}
PromptFileBodies == {<<" ", "P", "\n">>}

\* titles the metadata service may report
RawTitles == {<<"x", " ", "y">>, <<" ", "x", ":", "_", "y">>}
Titles == {sanitize_filename(t) : t \in RawTitles} \cup {UnknownTitle}

\* snippet texts and transcripts the retrieval service may return
SnippetTexts == {<<"a">>, <<" ", "b", "\n">>}
RECURSIVE SeqsUpTo(_, _)
SeqsUpTo(S, n) ==
  IF n = 0 THEN {<<>>}
  ELSE LET shorter == SeqsUpTo(S, n - 1)
       IN shorter \cup {Append(s, x) : s \in {t \in shorter : Len(t) = n - 1}, x \in S}
FetchedTranscripts == SeqsUpTo(SnippetTexts, MaxSnips)

\* what the retrieval service holds for each video (it may also hold no snippet)
Upstream(v) ==
  IF v = "A" THEN << <<" ", "a">>, <<"b", "\n">> >> ELSE << <<"c">> >>
UpstreamTranscripts(v) == {Upstream(v), <<>>}

\* argument vectors: positional, so a model needs a prompt file before it
Argvs ==
  {a \in [video_id : VideoIds \cup {NoArg}, prompt_file : PromptFiles \cup {NoArg},
          ollama_model : Models] :
     /\ (a.video_id = NoArg => a.prompt_file = NoArg)
     /\ (a.prompt_file = NoArg => a.ollama_model = DEFAULT_OLLAMA_MODEL)}

\* answers of the inference endpoint: status, raw body text, and the parsed
\* JSON body (json = "invalid": not JSON; "nofield": no "response" key)
Responses ==
  { [status_code |-> 200, text |-> <<"{", "h", "i", "}">>, json |-> "ok", response |-> <<" ", "h", "i", "\n">>],
    [status_code |-> 200, text |-> <<"{", "}">>, json |-> "nofield", response |-> <<>>],
    [status_code |-> 200, text |-> <<"o", "k">>, json |-> "invalid", response |-> <<>>],
    [status_code |-> 500, text |-> <<"b", "o", "o", "m">>, json |-> "invalid", response |-> <<>>] }


\* ------------------------------------------------------------------ state
NoResponse == [status_code |-> 0, text |-> <<>>, json |-> "invalid", response |-> <<>>]

\* what a finished run leaves for the history of the next one
NoRun ==
  [valid |-> FALSE, video_id |-> NoArg, ollama_model |-> DEFAULT_OLLAMA_MODEL,
   video_title |-> <<>>, wrote_summary |-> FALSE, summary_file |-> NoFile]

\* the locals of main() and what the run has done so far
FreshRun(tr, su, ds, last) ==
  [pc |-> "idle", video_id |-> NoArg, prompt_file |-> NoArg,
   ollama_model |-> DEFAULT_OLLAMA_MODEL, video_title |-> <<>>, exists |-> "unknown",
   fetched_transcript |-> <<>>, widx |-> 0, wbuf |-> <<>>, woff |-> 0,
   transcript_text |-> <<>>, prompt |-> <<>>, response |-> NoResponse,
   summary |-> <<>>, sent |-> <<>>, exit |-> -1, caught |-> FALSE, raised |-> <<>>,
   printed |-> <<>>, warned |-> {}, failed |-> "none",
   meta_calls |-> 0, fetch_calls |-> 0, post_calls |-> 0, stages |-> <<>>,
   wrote_summary |-> FALSE, tr0 |-> tr, su0 |-> su, dirs0 |-> ds, prior |-> last]

Init ==
  /\ run = [p \in Procs |-> FreshRun([t \in Titles |-> NoFile],
                                     [k \in Titles \X Models |-> NoFile], {}, NoRun)]
  /\ transcripts = [t \in Titles |-> NoFile]
  /\ summaries = [k \in Titles \X Models |-> NoFile]
  /\ dirs = {}
  /\ nruns = 0
  /\ prev = NoRun
  /\ firstWrite = [t \in Titles |-> NoWrite]
  /\ name = <<>>
  /\ result = <<>>

Set(p, r) == run' = [run EXCEPT ![p] = r]

\* lines 107-108: the top-level handler prints the exception and main returns
Handler(r, stage, msg) ==
  [r EXCEPT !.pc = "end", !.caught = TRUE, !.raised = msg, !.failed = stage,
            !.printed = <<"Error: ">> \o msg]

\* ------------------------------------------------------------------ main
\* the program is started with an argument vector (lines 110-111, 64-70)
Start(p, argvs) ==
  /\ run[p].pc \in {"idle", "exited"}
  /\ \E a \in argvs :
       Set(p, [FreshRun(transcripts, summaries, dirs, prev) EXCEPT
                 !.pc = "main", !.video_id = a.video_id, !.prompt_file = a.prompt_file,
                 !.ollama_model = a.ollama_model])
  /\ nruns' = nruns + 1
  /\ UNCHANGED <<transcripts, summaries, dirs, prev, firstWrite, name, result>>

\* lines 64-66: no identifier: usage, sys.exit(1)
Usage(p) ==
  /\ run[p].pc = "main"
  /\ run[p].video_id = NoArg
  /\ Set(p, [run[p] EXCEPT !.pc = "exited", !.exit = 1, !.printed = <<"Usage">>])
  /\ prev' = NoRun
  /\ UNCHANGED <<transcripts, summaries, dirs, nruns, firstWrite, name, result>>

\* lines 24-31 and 76-79: the metadata lookup; any failure gives "unknown_title"
TitleOf(info) ==
  IF info.ok THEN (IF info.has_title THEN sanitize_filename(info.title) ELSE sanitize_filename(UnknownTitle))
  ELSE UnknownTitle

Infos ==
  {[ok |-> TRUE, has_title |-> TRUE, title |-> t] : t \in RawTitles}
    \cup {[ok |-> TRUE, has_title |-> FALSE, title |-> <<>>],
          [ok |-> FALSE, has_title |-> FALSE, title |-> <<>>]}

get_video_title(p) ==
  /\ run[p].pc = "main"
  /\ run[p].video_id # NoArg
  /\ \E info \in Infos :
       Set(p, [run[p] EXCEPT !.pc = "exists", !.video_title = TitleOf(info),
                 !.meta_calls = @ + 1, !.stages = Append(@, "title"),
                 !.warned = IF info.ok THEN @ ELSE @ \cup {"title"}])
  /\ UNCHANGED <<transcripts, summaries, dirs, nruns, prev, firstWrite, name, result>>

\* mutant: an empty transcript file counts as missing
path_exists_nonempty(p) ==
  transcripts[run[p].video_title].exists /\ transcripts[run[p].video_title].data # <<>>

\* mutant: the cache entry is only used for the video it was saved for
path_exists_for_video(p) ==
  /\ transcripts[run[p].video_title].exists
  /\ firstWrite[run[p].video_title].by \in {"<none>", run[p].video_id}

\* line 81: os.path.exists(transcript_path)
path_exists(p) == transcripts[run[p].video_title].exists

\* mutant: on a hit the file is not read back
CacheHitSkipsRead(p) ==
  /\ run[p].pc = "exists"
  /\ path_exists(p)
  /\ Set(p, [run[p] EXCEPT !.pc = "prompt", !.exists = "hit", !.stages = Append(@, "exists")])
  /\ UNCHANGED <<transcripts, summaries, dirs, nruns, prev, firstWrite, name, result>>

\* lines 81-82: the transcript file is there
CacheHit(p) ==
  /\ run[p].pc = "exists"
  /\ path_exists(p)
  /\ Set(p, [run[p] EXCEPT !.pc = "read", !.exists = "hit", !.stages = Append(@, "exists")])
  /\ UNCHANGED <<transcripts, summaries, dirs, nruns, prev, firstWrite, name, result>>

\* mutant: a miss waits while another run is fetching or saving the same title
CacheMissLocked(p) ==
  /\ run[p].pc = "exists"
  /\ ~path_exists(p)
  /\ \A q \in Procs \ {p} :
       ~(run[q].pc \in {"fetch", "save", "write"} /\ run[q].video_title = run[p].video_title)
  /\ Set(p, [run[p] EXCEPT !.pc = "fetch", !.exists = "miss", !.stages = Append(@, "exists")])
  /\ UNCHANGED <<transcripts, summaries, dirs, nruns, prev, firstWrite, name, result>>

\* lines 83-84: it is not
CacheMiss(p) ==
  /\ run[p].pc = "exists"
  /\ ~path_exists(p)
  /\ Set(p, [run[p] EXCEPT !.pc = "fetch", !.exists = "miss", !.stages = Append(@, "exists")])
  /\ UNCHANGED <<transcripts, summaries, dirs, nruns, prev, firstWrite, name, result>>

\* lines 85-87: YouTubeTranscriptApi().fetch(video_id) returns the snippets
Fetch(p, served) ==
  /\ run[p].pc = "fetch"
  /\ \E tr \in served :
       Set(p, [run[p] EXCEPT !.pc = "save", !.fetched_transcript = tr,
                 !.fetch_calls = @ + 1, !.stages = Append(@, "fetch")])
  /\ UNCHANGED <<transcripts, summaries, dirs, nruns, prev, firstWrite, name, result>>

\* mutant: the file is opened before the transcript is fetched
FetchFailsAfterOpen(p) ==
  /\ run[p].pc = "fetch"
  /\ Set(p, Handler([run[p] EXCEPT !.fetch_calls = @ + 1, !.stages = Append(@, "fetch")],
                    "fetch", <<"TranscriptsDisabled">>))
  /\ dirs' = dirs \cup {TRANSCRIPTS_DIR}
  /\ transcripts' = [transcripts EXCEPT ![run[p].video_title] = File(<<>>)]
  /\ UNCHANGED <<summaries, nruns, prev, firstWrite, name, result>>

\* line 86: ... or raises; the exception reaches the handler of line 107
FetchFails(p) ==
  /\ run[p].pc = "fetch"
  /\ Set(p, Handler([run[p] EXCEPT !.fetch_calls = @ + 1, !.stages = Append(@, "fetch")],
                    "fetch", <<"TranscriptsDisabled">>))
  /\ UNCHANGED <<transcripts, summaries, dirs, nruns, prev, firstWrite, name, result>>

\* mutant: the snippet text is written untrimmed
snippet_line_untrimmed(text) == text \o <<" ">>

\* line 37: what save_transcript writes for one snippet
snippet_line(text) == strip(text) \o <<" ">>

\* lines 34-35: makedirs, then open(filepath, "w") creates or truncates the file
SaveOpen(p) ==
  /\ run[p].pc = "save"
  /\ Set(p, [run[p] EXCEPT !.pc = "write", !.widx = 1, !.wbuf = <<>>, !.woff = 0,
               !.stages = Append(@, "save")])
  /\ dirs' = dirs \cup {TRANSCRIPTS_DIR}
  /\ transcripts' = [transcripts EXCEPT ![run[p].video_title] = File(<<>>)]
  /\ UNCHANGED <<summaries, nruns, prev, firstWrite, name, result>>

\* lines 34-35: ... or makedirs/open raises OSError
SaveOpenFails(p) ==
  /\ run[p].pc = "save"
  /\ Set(p, Handler([run[p] EXCEPT !.stages = Append(@, "save")], "io", <<"OSError">>))
  /\ UNCHANGED <<transcripts, summaries, dirs, nruns, prev, firstWrite, name, result>>

\* lines 36-37: one iteration of the loop; f.write goes to the file object's buffer
SaveWrite(p) ==
  /\ run[p].pc = "write"
  /\ run[p].widx <= Len(run[p].fetched_transcript)
  /\ Set(p, [run[p] EXCEPT !.widx = @ + 1,
               !.wbuf = @ \o snippet_line(run[p].fetched_transcript[run[p].widx])])
  /\ UNCHANGED <<transcripts, summaries, dirs, nruns, prev, firstWrite, name, result>>

\* the buffer of the open file reaches the file at the descriptor's offset
flushed(p) == WriteAt(transcripts[run[p].video_title].data, run[p].woff, run[p].wbuf)

\* lines 35-37: the file object may flush its buffer at any write
Flush(p) ==
  /\ run[p].pc = "write"
  /\ run[p].wbuf # <<>>
  /\ Set(p, [run[p] EXCEPT !.wbuf = <<>>, !.woff = @ + Len(run[p].wbuf)])
  /\ transcripts' = [transcripts EXCEPT ![run[p].video_title] = File(flushed(p))]
  /\ UNCHANGED <<summaries, dirs, nruns, prev, firstWrite, name, result>>

\* lines 35-38: leaving the with block flushes and closes the file
SaveClose(p) ==
  /\ run[p].pc = "write"
  /\ run[p].widx > Len(run[p].fetched_transcript)
  /\ Set(p, [run[p] EXCEPT !.pc = "read", !.wbuf = <<>>, !.woff = @ + Len(run[p].wbuf)])
  /\ transcripts' = [transcripts EXCEPT ![run[p].video_title] = File(flushed(p))]
  /\ firstWrite' = IF firstWrite[run[p].video_title].exists THEN firstWrite
                   ELSE [firstWrite EXCEPT ![run[p].video_title] =
                           Written(flushed(p), run[p].video_id)]
  /\ UNCHANGED <<summaries, dirs, nruns, prev, name, result>>

\* lines 90-91: the transcript file is read back
ReadTranscript(p) ==
  /\ run[p].pc = "read"
  /\ transcripts[run[p].video_title].exists
  /\ Set(p, [run[p] EXCEPT !.pc = "prompt", !.stages = Append(@, "read"),
               !.transcript_text = transcripts[run[p].video_title].data])
  /\ UNCHANGED <<transcripts, summaries, dirs, nruns, prev, firstWrite, name, result>>

\* line 94: no prompt file argument
PromptDefault(p) ==
  /\ run[p].pc = "prompt"
  /\ run[p].prompt_file = NoArg
  /\ Set(p, [run[p] EXCEPT !.pc = "post", !.prompt = DEFAULT_PROMPT,
               !.stages = Append(@, "prompt")])
  /\ UNCHANGED <<transcripts, summaries, dirs, nruns, prev, firstWrite, name, result>>

\* lines 40-43: the prompt file is read and stripped
load_prompt(p) ==
  /\ run[p].pc = "prompt"
  /\ run[p].prompt_file # NoArg
  /\ \E body \in PromptFileBodies :
       Set(p, [run[p] EXCEPT !.pc = "post", !.prompt = strip(body),
                 !.stages = Append(@, "prompt")])
  /\ UNCHANGED <<transcripts, summaries, dirs, nruns, prev, firstWrite, name, result>>

\* lines 44-47: it cannot be read: warning, default prompt
load_prompt_fails(p) ==
  /\ run[p].pc = "prompt"
  /\ run[p].prompt_file # NoArg
  /\ Set(p, [run[p] EXCEPT !.pc = "post", !.prompt = DEFAULT_PROMPT,
               !.warned = @ \cup {"prompt"}, !.stages = Append(@, "prompt")])
  /\ UNCHANGED <<transcripts, summaries, dirs, nruns, prev, firstWrite, name, result>>

\* line 50
full_prompt(prompt, transcript_text) == prompt \o <<"\n", "\n">> \o transcript_text

\* mutant: the status code is not looked at
summarize_any_status(resp) ==
  IF resp.json = "invalid"
  THEN [raises |-> FALSE, value |-> strip(resp.text)]
  ELSE [raises |-> FALSE,
        value |-> strip(IF resp.json = "ok" THEN resp.response ELSE <<>>)]

\* lines 57-61: the value returned, or the exception raised, for a response
summarize_with_ollama(resp) ==
  IF resp.status_code = 200
  THEN IF resp.json = "invalid"
       THEN [raises |-> TRUE, value |-> <<"JSONDecodeError">>]
       ELSE [raises |-> FALSE,
             value |-> strip(IF resp.json = "ok" THEN resp.response ELSE <<>>)]
  ELSE [raises |-> TRUE, value |-> <<"Ollama request failed: ">> \o resp.text]

\* lines 96-99 and 50-61: the POST is answered
Summarize(p) ==
  /\ run[p].pc = "post"
  /\ \E resp \in Responses :
       LET r == [run[p] EXCEPT !.post_calls = @ + 1, !.response = resp,
                   !.stages = Append(@, "post"),
                   !.sent = <<full_prompt(run[p].prompt, run[p].transcript_text)>>]
           out == summarize_with_ollama(resp)
       IN Set(p, IF out.raises THEN Handler(r, "inference", out.value)
                 ELSE [r EXCEPT !.pc = "write_summary", !.summary = out.value])
  /\ UNCHANGED <<transcripts, summaries, dirs, nruns, prev, firstWrite, name, result>>

\* lines 51-55: requests.post itself raises (no server)
PostFails(p) ==
  /\ run[p].pc = "post"
  /\ Set(p, Handler([run[p] EXCEPT !.post_calls = @ + 1, !.stages = Append(@, "post"),
                       !.sent = <<full_prompt(run[p].prompt, run[p].transcript_text)>>],
                    "inference", <<"ConnectionError">>))
  /\ UNCHANGED <<transcripts, summaries, dirs, nruns, prev, firstWrite, name, result>>

\* mutant: an existing summary file is kept
WriteSummaryIfAbsent(p) ==
  /\ run[p].pc = "write_summary"
  /\ Set(p, [run[p] EXCEPT !.pc = "end", !.wrote_summary = TRUE,
               !.stages = Append(@, "write_summary")])
  /\ dirs' = dirs \cup {SUMMARIES_DIR}
  /\ summaries' = IF summaries[<<run[p].video_title, run[p].ollama_model>>].exists
                  THEN summaries
                  ELSE [summaries EXCEPT ![<<run[p].video_title, run[p].ollama_model>>] =
                          File(run[p].summary)]
  /\ UNCHANGED <<transcripts, nruns, prev, firstWrite, name, result>>

\* lines 101-105: the summary file is written
WriteSummary(p) ==
  /\ run[p].pc = "write_summary"
  /\ Set(p, [run[p] EXCEPT !.pc = "end", !.wrote_summary = TRUE,
               !.stages = Append(@, "write_summary")])
  /\ dirs' = dirs \cup {SUMMARIES_DIR}
  /\ summaries' = [summaries EXCEPT ![<<run[p].video_title, run[p].ollama_model>>] =
                     File(run[p].summary)]
  /\ UNCHANGED <<transcripts, nruns, prev, firstWrite, name, result>>

\* lines 102-103: ... or makedirs/open raises OSError
WriteSummaryFails(p) ==
  /\ run[p].pc = "write_summary"
  /\ Set(p, Handler([run[p] EXCEPT !.stages = Append(@, "write_summary")], "io", <<"OSError">>))
  /\ UNCHANGED <<transcripts, summaries, dirs, nruns, prev, firstWrite, name, result>>

\* mutant: the handler ends the process with status 1
ExitWithStatus(p) ==
  /\ run[p].pc = "end"
  /\ Set(p, [run[p] EXCEPT !.pc = "exited", !.exit = IF run[p].caught THEN 1 ELSE 0])
  /\ prev' = [valid |-> TRUE, video_id |-> run[p].video_id,
              ollama_model |-> run[p].ollama_model, video_title |-> run[p].video_title,
              wrote_summary |-> run[p].wrote_summary,
              summary_file |-> summaries[<<run[p].video_title, run[p].ollama_model>>]]
  /\ UNCHANGED <<transcripts, summaries, dirs, nruns, firstWrite, name, result>>

\* main returns (after line 105 or line 108) and the interpreter exits with status 0
Exit(p) ==
  /\ run[p].pc = "end"
  /\ Set(p, [run[p] EXCEPT !.pc = "exited", !.exit = 0])
  /\ prev' = [valid |-> TRUE, video_id |-> run[p].video_id,
              ollama_model |-> run[p].ollama_model, video_title |-> run[p].video_title,
              wrote_summary |-> run[p].wrote_summary,
              summary_file |-> summaries[<<run[p].video_title, run[p].ollama_model>>]]
  /\ UNCHANGED <<transcripts, summaries, dirs, nruns, firstWrite, name, result>>

\* every step of a started run but the answer of the retrieval service
Step(p) ==
  \/ Usage(p) \/ get_video_title(p) \/ CacheHit(p) \/ CacheMiss(p)
  \/ FetchFails(p)
  \/ SaveOpen(p) \/ SaveOpenFails(p) \/ SaveWrite(p) \/ Flush(p) \/ SaveClose(p)
  \/ ReadTranscript(p)
  \/ PromptDefault(p) \/ load_prompt(p) \/ load_prompt_fails(p)
  \/ Summarize(p) \/ PostFails(p)
  \/ WriteSummary(p) \/ WriteSummaryFails(p)
  \/ Exit(p)

Quiet == \A q \in Procs : run[q].pc \in {"idle", "exited"}

SeqProcs == {1}

\* the program as the specification describes its use: one run after another,
\* each video with the transcript the service holds for it
Next ==
  \E p \in SeqProcs :
    \/ nruns < MaxRuns /\ Quiet /\ Start(p, Argvs)
    \/ Fetch(p, UpstreamTranscripts(run[p].video_id))
    \/ Step(p)

Spec == Init /\ [][Next]_vars

\* one run, the service answering with any transcript; a transcript file of an
\* earlier run may be there
OldTranscript == snippet_line(<<"a">>)

InitOne ==
  /\ Init!1 /\ Init!3 /\ Init!5 /\ Init!6 /\ Init!8 /\ Init!9
  /\ transcripts \in [Titles -> {NoFile, File(OldTranscript)}]
  /\ firstWrite = [t \in Titles |-> IF transcripts[t].exists
                                    THEN Written(OldTranscript, "A") ELSE NoWrite]
  /\ dirs = IF \E t \in Titles : transcripts[t].exists THEN {TRANSCRIPTS_DIR} ELSE {}

NextOne ==
  \E p \in SeqProcs :
    \/ nruns = 0 /\ Start(p, Argvs)
    \/ Fetch(p, FetchedTranscripts)
    \/ Step(p)

SpecOne == InitOne /\ [][NextOne]_vars

\* two invocations alive at once, each started once with a video identifier
\* and no prompt file
ConcArgvs == {a \in Argvs : a.video_id # NoArg /\ a.prompt_file = NoArg}

NextConc ==
  \E p \in Procs :
    \/ run[p].pc = "idle" /\ Start(p, ConcArgvs)
    \/ get_video_title(p) \/ CacheHit(p) \/ CacheMiss(p)
    \/ Fetch(p, UpstreamTranscripts(run[p].video_id)) \/ FetchFails(p)
    \/ SaveOpen(p) \/ SaveOpenFails(p) \/ SaveWrite(p) \/ Flush(p) \/ SaveClose(p)
    \/ ReadTranscript(p) \/ PromptDefault(p)
    \/ Summarize(p) \/ PostFails(p)
    \/ WriteSummary(p) \/ WriteSummaryFails(p)
    \/ Exit(p)

SpecConc == Init /\ [][NextConc]_vars

\* ------------------------------------------------------------------ sanitize_filename alone
SanAlphabet == Forbidden \cup {" ", "\t", "a", "_"}

InitSan ==
  /\ Init!1 /\ Init!2 /\ Init!3 /\ Init!4 /\ Init!5 /\ Init!6 /\ Init!7
  /\ name \in SeqsUpTo(SanAlphabet, MaxLen)
  /\ result = <<>>

\* line 22 applied to name
Sanitize ==
  /\ result = <<>>
  /\ result' = <<sanitize_filename(name)>>
  /\ UNCHANGED <<run, transcripts, summaries, dirs, nruns, prev, firstWrite, name>>

SpecSan == InitSan /\ [][Sanitize]_vars

\* ------------------------------------------------------------------ claims
Exited(p) == run[p].pc = "exited"
Reached(p, stage) == \E i \in 1..Len(run[p].stages) : run[p].stages[i] = stage
SummaryKey(r) == <<r.video_title, r.ollama_model>>

\* this run follows a run with the same identifier and model that wrote its summary file
AfterSameRun(p) ==
  /\ Exited(p)
  /\ run[p].video_id # NoArg
  /\ run[p].prior.valid
  /\ run[p].prior.wrote_summary
  /\ run[p].prior.video_id = run[p].video_id
  /\ run[p].prior.ollama_model = run[p].ollama_model

C2_CacheHitKeepsTranscript ==
  /\ \A p \in Procs :
       (Reached(p, "exists") /\ run[p].tr0[run[p].video_title].exists) =>
         /\ run[p].exists = "hit"
         /\ run[p].fetch_calls = 0
         /\ transcripts[run[p].video_title] = run[p].tr0[run[p].video_title]
  /\ \A t \in Titles :
       firstWrite[t].exists => transcripts[t] = File(firstWrite[t].data)

C2_Witness ==
  \E p \in Procs :
    /\ Exited(p)
    /\ run[p].exists = "hit"
    /\ run[p].tr0[run[p].video_title] = File(<<>>)
    /\ run[p].post_calls = 1
    /\ run[p].transcript_text = <<>>

\* C4: when the endpoint answers with a status other than 200 the run raises
\* an error carrying the response body, the handler prints a line containing
\* the body, and no summary file is created or changed.
C4_Non200Aborts ==
  \A p \in Procs :
    run[p].response.status_code \notin {0, 200} =>
      /\ run[p].pc \in {"end", "exited"}
      /\ run[p].caught
      /\ run[p].failed = "inference"
      /\ Contains(run[p].raised, run[p].response.text)
      /\ Contains(run[p].printed, run[p].response.text)
      /\ run[p].printed[1] = "Error: "
      /\ ~run[p].wrote_summary
      /\ summaries = run[p].su0
      /\ (SUMMARIES_DIR \in dirs <=> SUMMARIES_DIR \in run[p].dirs0)

C4_Witness ==
  \E p \in Procs :
    /\ Exited(p)
    /\ run[p].response.status_code = 500
    /\ run[p].response.text = <<"b", "o", "o", "m">>
    /\ run[p].su0[SummaryKey(run[p])].exists
    /\ summaries[SummaryKey(run[p])] = run[p].su0[SummaryKey(run[p])]

SomeStageFailed(p) == run[p].failed # "none" \/ run[p].warned # {}

\* C6 as stated: the exit status is non-zero exactly when the identifier is
\* omitted (then nothing is called or written); in every other run, whichever
\* stage fails, the top-level handler catches it and prints an error line.
C6_AnyFailureReachesHandler ==
  \A p \in Procs :
    Exited(p) =>
      /\ (run[p].exit # 0 <=> run[p].video_id = NoArg)
      /\ (run[p].video_id = NoArg =>
            /\ run[p].meta_calls + run[p].fetch_calls + run[p].post_calls = 0
            /\ transcripts = run[p].tr0 /\ summaries = run[p].su0)
      /\ (run[p].video_id # NoArg /\ SomeStageFailed(p) =>
            run[p].caught /\ run[p].printed[1] = "Error: " /\ run[p].exit = 0)

\* C6 amended: the exit status is non-zero exactly when the identifier is
\* omitted (then nothing is called or written).  Otherwise a failed title
\* lookup or prompt load is recovered where it happens (a warning, and the run
\* goes on); a failed transcript retrieval, file operation or inference request
\* is caught by the top-level handler, which prints an error line; the exit
\* status is zero in every such run.
C6_ExitStatus ==
  \A p \in Procs :
    Exited(p) =>
      /\ (run[p].exit # 0 <=> run[p].video_id = NoArg)
      /\ (run[p].video_id = NoArg =>
            /\ run[p].exit = 1
            /\ run[p].meta_calls + run[p].fetch_calls + run[p].post_calls = 0
            /\ transcripts = run[p].tr0 /\ summaries = run[p].su0)
      /\ (run[p].video_id # NoArg =>
            /\ run[p].exit = 0
            /\ (run[p].caught <=> run[p].failed \in {"fetch", "io", "inference"})
            /\ (run[p].caught => run[p].printed = <<"Error: ">> \o run[p].raised)
            /\ (~run[p].caught => run[p].wrote_summary /\ run[p].printed = <<>>)
            /\ ("title" \in run[p].warned => run[p].video_title = UnknownTitle)
            /\ ("prompt" \in run[p].warned => run[p].prompt = DEFAULT_PROMPT))

C6_Witness ==
  \E p \in Procs :
    /\ Exited(p)
    /\ run[p].warned = {"title", "prompt"}
    /\ run[p].failed = "inference"
    /\ run[p].caught
    /\ run[p].exit = 0

\* C7: a failed retrieval on a cache miss is not retried and aborts the run:
\* no transcript file, no inference request, and the cache directories are as
\* they were before the run.
C7_FetchFailureAborts ==
  \A p \in Procs :
    run[p].failed = "fetch" =>
      /\ run[p].exists = "miss"
      /\ run[p].fetch_calls = 1
      /\ run[p].post_calls = 0
      /\ run[p].pc \in {"end", "exited"}
      /\ run[p].caught
      /\ ~transcripts[run[p].video_title].exists
      /\ transcripts = run[p].tr0
      /\ summaries = run[p].su0
      /\ dirs = run[p].dirs0

C7_Witness ==
  \E p \in Procs :
    /\ Exited(p)
    /\ run[p].failed = "fetch"
    /\ \E t \in Titles : transcripts[t].exists
    /\ \E k \in Titles \X Models : summaries[k].exists

HitOrder == <<"title", "exists", "read", "prompt", "post", "write_summary">>
MissOrder == <<"title", "exists", "fetch", "save", "read", "prompt", "post", "write_summary">>

\* C8: the stages of a run happen in the fixed order, each external call is
\* made at most once, the inference request comes after the transcript file
\* exists and was read, and the summary is written only after a status 200.
C8_StageOrder ==
  \A p \in Procs :
    /\ IF run[p].exists = "miss" THEN IsPrefix(run[p].stages, MissOrder)
       ELSE IsPrefix(run[p].stages, HitOrder)
    /\ run[p].meta_calls <= 1 /\ run[p].fetch_calls <= 1 /\ run[p].post_calls <= 1
    /\ (run[p].post_calls = 1 =>
          /\ transcripts[run[p].video_title].exists
          /\ Reached(p, "read")
          /\ run[p].sent = <<full_prompt(run[p].prompt, transcripts[run[p].video_title].data)>>)
    /\ (run[p].wrote_summary =>
          run[p].post_calls = 1 /\ run[p].response.status_code = 200)

C8_Witness ==
  \E p \in Procs :
    /\ Exited(p)
    /\ run[p].stages = MissOrder
    /\ run[p].wrote_summary
    /\ run[p].meta_calls = 1 /\ run[p].fetch_calls = 1 /\ run[p].post_calls = 1

\* C9: the lookup never fails the run (a failed lookup gives "unknown_title"),
\* and a run for one video that resolves the title under which a run for
\* another video saved a transcript takes the cache hit, never calls the
\* retrieval service, and sends the other video's transcript.
C9_CacheKeyedByTitle ==
  \A p \in Procs :
    /\ run[p].failed # "title"
    /\ ("title" \in run[p].warned => run[p].video_title = UnknownTitle)
    /\ (Reached(p, "title") => run[p].video_title \in Titles /\ run[p].meta_calls = 1)
    /\ LET w == firstWrite[run[p].video_title]
       IN (/\ Reached(p, "exists")
           /\ run[p].tr0[run[p].video_title].exists
           /\ w.exists
           /\ w.by # run[p].video_id) =>
            /\ run[p].exists = "hit"
            /\ run[p].fetch_calls = 0
            /\ (Reached(p, "read") => run[p].transcript_text = w.data)
            /\ (run[p].post_calls = 1 =>
                  run[p].sent = <<full_prompt(run[p].prompt, w.data)>>)

C9_Witness ==
  \E p \in Procs :
    /\ Exited(p)
    /\ run[p].video_id = "B"
    /\ run[p].video_title = UnknownTitle
    /\ "title" \in run[p].warned
    /\ firstWrite[UnknownTitle].by = "A"
    /\ firstWrite[UnknownTitle].data # <<>>
    /\ run[p].post_calls = 1
    /\ run[p].sent = <<full_prompt(run[p].prompt, firstWrite[UnknownTitle].data)>>

\* " ".join of the trimmed snippet texts
RECURSIVE Joined(_)
Joined(snips) ==
  IF snips = <<>> THEN <<>>
  ELSE IF Len(snips) = 1 THEN strip(snips[1])
  ELSE strip(Head(snips)) \o <<" ">> \o Joined(Tail(snips))

\* each trimmed snippet text followed by one space
RECURSIVE Terminated(_)
Terminated(snips) ==
  IF snips = <<>> THEN <<>>
  ELSE strip(Head(snips)) \o <<" ">> \o Terminated(Tail(snips))

SavedAndRead(p) == run[p].exists = "miss" /\ Reached(p, "read")

\* C3 as stated: on a cache miss the saved transcript file holds the trimmed
\* snippet texts joined by single spaces, with no separator before or after,
\* and that is the transcript text sent to the endpoint.
C3_SpaceJoined ==
  \A p \in Procs :
    SavedAndRead(p) =>
      /\ transcripts[run[p].video_title].data = Joined(run[p].fetched_transcript)
      /\ run[p].transcript_text = Joined(run[p].fetched_transcript)

\* C3 amended: on a cache miss the saved transcript file holds each trimmed
\* snippet text, in order, followed by one space (so the content ends with a
\* space unless there is no snippet), and that is the transcript text sent to
\* the endpoint.
C3_SpaceTerminated ==
  \A p \in Procs :
    /\ (run[p].pc = "write" =>
          IsPrefix(transcripts[run[p].video_title].data, Terminated(run[p].fetched_transcript)))
    /\ (SavedAndRead(p) =>
          /\ transcripts[run[p].video_title].data = Terminated(run[p].fetched_transcript)
          /\ run[p].transcript_text = Terminated(run[p].fetched_transcript)
          /\ (run[p].post_calls = 1 =>
                run[p].sent = <<run[p].prompt \o <<"\n", "\n">>
                                  \o Terminated(run[p].fetched_transcript)>>))

C3_Witness ==
  \E p \in Procs :
    /\ Exited(p)
    /\ SavedAndRead(p)
    /\ run[p].fetched_transcript = << <<" ", "b", "\n">>, <<"a">> >>
    /\ transcripts[run[p].video_title].data = <<"b", " ", "a", " ">>
    /\ run[p].post_calls = 1

Sanitized == result[1]

\* C5 as stated: the result holds no forbidden character and no space, and is
\* the input with every forbidden character removed and every space that
\* remains replaced by an underscore.
C5_RemoveThenReplace ==
  result # <<>> =>
    /\ \A i \in 1..Len(Sanitized) : Sanitized[i] \notin Forbidden \cup {" "}
    /\ Sanitized = [i \in 1..Len(re_sub(name)) |->
                      IF re_sub(name)[i] = " " THEN "_" ELSE re_sub(name)[i]]

\* C5 amended: the result holds no forbidden character and no space; it is the
\* input with every forbidden character removed, then leading and trailing
\* whitespace dropped, then every space that remains replaced by an underscore.
C5_RemoveStripReplace ==
  result # <<>> =>
    LET s == re_sub(name)
        r == Sanitized
    IN /\ \A i \in 1..Len(r) : r[i] \notin Forbidden \cup {" "}
       /\ \A i \in 1..Len(s) : s[i] \notin Forbidden
       /\ \E a \in 1..(Len(s) + 1) :
            /\ a + Len(r) - 1 <= Len(s)
            /\ \A i \in 1..(a - 1) : s[i] \in Whitespace
            /\ Len(r) > 0 => s[a] \notin Whitespace /\ s[a + Len(r) - 1] \notin Whitespace
            /\ \A i \in (a + Len(r))..Len(s) : s[i] \in Whitespace
            /\ \A k \in 1..Len(r) : r[k] = IF s[a + k - 1] = " " THEN "_" ELSE s[a + k - 1]

C5_Witness ==
  /\ name = <<" ", "a", "?">>
  /\ result = << <<"a">> >>

\* C10: nothing guards the transcript file between two runs: a run that finds
\* the file absent may go on to fetch and to open the file whatever the other
\* run is doing, and a run that finds the file present may take the hit and
\* read it while the other run still has it open for writing.
C10_Unguarded ==
  \A p \in Procs :
    /\ (run[p].pc = "exists" /\ ~transcripts[run[p].video_title].exists =>
          ENABLED CacheMiss(p))
    /\ (run[p].pc = "exists" /\ transcripts[run[p].video_title].exists =>
          ENABLED CacheHit(p))
    /\ (run[p].pc = "save" => ENABLED SaveOpen(p))
    /\ (run[p].pc = "read" => ENABLED ReadTranscript(p))

\* both runs missed, both called the retrieval service and both wrote the file
C10_BothFetched ==
  \E p, q \in Procs :
    /\ p # q
    /\ SavedAndRead(p) /\ SavedAndRead(q)
    /\ run[p].video_title = run[q].video_title
    /\ ~run[p].tr0[run[p].video_title].exists /\ ~run[q].tr0[run[q].video_title].exists
    /\ run[p].fetch_calls = 1 /\ run[q].fetch_calls = 1

\* one run took the hit while the other was writing and sent an incomplete transcript
C10_Witness ==
  \E p, q \in Procs :
    /\ p # q
    /\ run[q].exists = "miss" /\ run[q].pc = "write" /\ run[q].fetched_transcript # <<>>
    /\ run[p].exists = "hit"
    /\ run[p].video_title = run[q].video_title
    /\ ~run[p].tr0[run[p].video_title].exists /\ ~run[q].tr0[run[q].video_title].exists
    /\ run[p].post_calls = 1
    /\ run[p].sent = <<full_prompt(run[p].prompt, run[p].transcript_text)>>
    /\ run[p].transcript_text # Terminated(run[q].fetched_transcript)
    /\ IsPrefix(run[p].transcript_text, Terminated(run[q].fetched_transcript))

====
